---- MODULE Spec2Model ----
(***************************************************************************)
(* Model of gprs: Gaussian-process regression with an RBF kernel.          *)
(*                                                                         *)
(* Scalars.  The program computes in f64.  The model computes each formula *)
(* twice.  In "exact" arithmetic it computes the real number the f64       *)
(* computation approximates: a finite scalar is <<n, d, r>> and stands for *)
(* (n / d) * sqrt(r), with d > 0, gcd(n, d) = 1 and r a square-free        *)
(* positive integer (r = 1 for a rational); every entry of a Cholesky      *)
(* factor of a rational matrix has this form.  In "rounded" arithmetic it  *)
(* computes as f64 does, in binary floating point with round to nearest,   *)
(* ties to even, after every operation, on a mantissa of MantissaBits bits *)
(* (53 in f64) and an unbounded exponent.  The IEEE special values the     *)
(* kernel can produce are <<s, 0, 0>>: NaN (s = 0), -inf and +inf.         *)
(* Gamma is counted in units of ln 2, so exp(gamma * s) is 2 ^ (g * s).    *)
(*                                                                         *)
(* Matrices are nalgebra's DMatrix: [rows, cols, data] with data the flat  *)
(* column-major buffer, indexed from 0 as in the source.                   *)
(***************************************************************************)
EXTENDS Integers, Sequences, FiniteSets, TLC

\* ------------------------------------------------------------------ bounds
\* Largest number of columns (observations) of an input matrix.
MaxCols == 3
\* Largest number of training points of a GP.
MaxTrain == 2
\* Largest number of rows (input dimensions) of a matrix or kernel.
MaxDim == 2
\* Input matrices are enumerated by a seed in 0..MaxSeed whose binary digits
\* fill the flat buffer.
MaxSeed == 7
\* Query matrices are enumerated by a seed in 0..MaxQuerySeed.
MaxQuerySeed == 3
\* Bits of mantissa of the rounded arithmetic.
MantissaBits == 3

\* The arithmetic the scalars are computed in: "exact" or "rounded"
VARIABLE arith

\* ------------------------------------------------------------------ scalars
NaN == <<0, 0, 0>>
NegInf == <<-1, 0, 0>>
PosInf == <<1, 0, 0>>
\* A sum of two finite scalars with different radicands: the model has no
\* form for it; it absorbs like NaN and equals no finite scalar.
Irr == <<0, 0, 1>>

AbsI(a) == IF a < 0 THEN -a ELSE a
SignI(a) == IF a < 0 THEN -1 ELSE IF a = 0 THEN 0 ELSE 1

RECURSIVE Gcd(_, _)
Gcd(a, b) == IF b = 0 THEN a ELSE Gcd(b, a % b)

RECURSIVE Pow2(_)
Pow2(e) == IF e <= 0 THEN 1 ELSE 2 * Pow2(e - 1)

\* The largest s with s * s dividing n (n >= 1)
SquarePart(n) ==
    LET squares == {s \in 1..n : s <= n \div s /\ n % (s * s) = 0}
    IN CHOOSE s \in squares : \A t \in squares : t <= s

IsFinite(a) == a[2] # 0
IsNaN(a) == a[2] = 0 /\ a[1] = 0

Norm(n, d, r) ==
    IF n = 0 THEN <<0, 1, 1>>
    ELSE LET g == Gcd(AbsI(n), d) IN <<n \div g, d \div g, r>>

Num(n) == <<n, 1, 1>>
Rat(n, d) == Norm(n, d, 1)
Zero == Num(0)
One == Num(1)

IsZero(a) == IsFinite(a) /\ a[1] = 0
\* a > 0; false for NaN, as every f64 comparison with NaN
IsPositive(a) == a[1] > 0 /\ ~IsNaN(a)

Neg(a) == IF IsNaN(a) THEN a ELSE <<-a[1], a[2], a[3]>>

\* The exact product
ExactMul(a, b) ==
    IF IsNaN(a) \/ IsNaN(b) THEN (IF a = Irr \/ b = Irr THEN Irr ELSE NaN)
    ELSE IF ~IsFinite(a) \/ ~IsFinite(b)
    THEN (IF a[1] = 0 \/ b[1] = 0 THEN NaN ELSE <<SignI(a[1]) * SignI(b[1]), 0, 0>>)
    ELSE LET g == Gcd(a[3], b[3])
             g1 == Gcd(AbsI(a[1]), b[2])
             g2 == Gcd(AbsI(b[1]), a[2])
             n == (a[1] \div g1) * (b[1] \div g2)
             da == a[2] \div g2
             db == b[2] \div g1
             ga == Gcd(g, da)
             gb == Gcd(g \div ga, db)
         IN IF n = 0 THEN Zero
            ELSE Norm(n * ((g \div ga) \div gb), (da \div ga) * (db \div gb),
                      (a[3] \div g) * (b[3] \div g))

\* The exact 1 / a; 1 / 0 is +inf and 1 / inf is 0, as in f64
ExactInv(a) ==
    IF IsNaN(a) THEN a
    ELSE IF ~IsFinite(a) THEN Zero
    ELSE IF a[1] = 0 THEN PosInf
    ELSE Norm(SignI(a[1]) * a[2], AbsI(a[1]) * a[3], a[3])

\* The exact sum
ExactAdd(a, b) ==
    IF IsNaN(a) \/ IsNaN(b) THEN (IF a = Irr \/ b = Irr THEN Irr ELSE NaN)
    ELSE IF ~IsFinite(a) THEN (IF ~IsFinite(b) /\ b # a THEN NaN ELSE a)
    ELSE IF ~IsFinite(b) THEN b
    ELSE IF a[1] = 0 THEN b
    ELSE IF b[1] = 0 THEN a
    ELSE IF a[3] = b[3]
    THEN LET g == Gcd(a[2], b[2])
         IN Norm(a[1] * (b[2] \div g) + b[1] * (a[2] \div g),
                 a[2] * (b[2] \div g), a[3])
    ELSE Irr

\* The exact square root of a positive rational: with p = sp^2 * rp and
\* q = sq^2 * rq, sqrt(p/q) = sp * sqrt(rp * rq) / (sq * rq)
ExactSqrt(a) ==
    IF a[3] # 1 THEN Irr
    ELSE LET sp == SquarePart(a[1])
             sq == SquarePart(a[2])
             rq == a[2] \div (sq * sq)
         IN Norm(sp, sq * rq, (a[1] \div (sp * sp)) * rq)


\* Mantissas m of the rounded arithmetic: MantissaMin <= m < MantissaMax
MantissaMax == Pow2(MantissaBits)
MantissaMin == Pow2(MantissaBits - 1)

\* The exponent e of a positive n / d: MantissaMin <= n / (d * 2^e)
\* < MantissaMax
RECURSIVE Exponent(_, _)
Exponent(n, d) ==
    IF n \div d >= MantissaMax
    THEN (IF n % 2 = 0 THEN Exponent(n \div 2, d) ELSE Exponent(n, 2 * d)) + 1
    ELSE IF n \div d < MantissaMin
    THEN (IF d % 2 = 0 THEN Exponent(n, d \div 2) ELSE Exponent(2 * n, d)) - 1
    ELSE 0

\* The integer nearest to a positive n / d, ties to even
Nearest(n, d) ==
    LET m == n \div d
        rem == n - m * d
    IN IF 2 * rem > d \/ (2 * rem = d /\ m % 2 = 1) THEN m + 1 ELSE m

\* The float nearest to a positive n / d
RoundPositive(n, d) ==
    LET e == Exponent(n, d)
        up == IF e < 0 THEN Pow2(-e) ELSE 1
        down == IF e > 0 THEN Pow2(e) ELSE 1
        gu == Gcd(d, up)
        gd == Gcd(n, down)
    IN Norm(Nearest((n \div gd) * (up \div gu), (d \div gu) * (down \div gd)) * down,
            up, 1)

\* The result of an f64 operation whose exact result is a
Fl(a) ==
    IF arith = "exact" \/ ~IsFinite(a) \/ a[1] = 0 THEN a
    ELSE IF a[1] > 0 THEN RoundPositive(a[1], a[2])
    ELSE Neg(RoundPositive(-a[1], a[2]))

\* The exponent e of the square root of a positive n / d
RECURSIVE SqrtExponent(_, _)
SqrtExponent(n, d) ==
    IF n \div d >= MantissaMax * MantissaMax
    THEN (IF n % 4 = 0 THEN SqrtExponent(n \div 4, d) ELSE SqrtExponent(n, 4 * d)) + 1
    ELSE IF n \div d < MantissaMin * MantissaMin
    THEN (IF d % 4 = 0 THEN SqrtExponent(n, d \div 4) ELSE SqrtExponent(4 * n, d)) - 1
    ELSE 0

\* The float nearest to the square root of a positive n / d
RoundedSqrt(n, d) ==
    LET e == SqrtExponent(n, d)
        up == IF e < 0 THEN Pow2(-2 * e) ELSE 1
        down == IF e > 0 THEN Pow2(2 * e) ELSE 1
        gu == Gcd(d, up)
        gd == Gcd(n, down)
        nn == (n \div gd) * (up \div gu)
        dd == (d \div gu) * (down \div gd)
        y == nn \div dd
        m == CHOOSE r \in 0..MantissaMax : r * r <= y /\ y < (r + 1) * (r + 1)
        half == (4 * m * m + 4 * m + 1) * dd
        mant == IF 4 * nn > half \/ (4 * nn = half /\ m % 2 = 1) THEN m + 1 ELSE m
    IN Norm(mant * (IF e > 0 THEN Pow2(e) ELSE 1), IF e < 0 THEN Pow2(-e) ELSE 1, 1)

\* f64 multiplication, division, addition and subtraction
Mul(a, b) == Fl(ExactMul(a, b))
Div(a, b) == Fl(ExactMul(a, ExactInv(b)))
Add(a, b) == Fl(ExactAdd(a, b))
Sub(a, b) == Add(a, Neg(b))

\* f64::sqrt
Sqrt(a) ==
    IF IsNaN(a) THEN a
    ELSE IF ~IsFinite(a) THEN (IF a = PosInf THEN a ELSE NaN)
    ELSE IF a[1] < 0 THEN NaN
    ELSE IF a[1] = 0 THEN Zero
    ELSE IF arith = "exact" THEN ExactSqrt(a)
    ELSE RoundedSqrt(a[1], a[2])

\* f64::exp with the argument in units of ln 2: 2 ^ a for an integer a
Exp(a) ==
    IF IsNaN(a) THEN a
    ELSE IF a = NegInf THEN Zero
    ELSE IF a = PosInf THEN a
    ELSE IF a[2] # 1 \/ a[3] # 1 THEN Irr
    ELSE IF a[1] >= 0 THEN Num(Pow2(a[1]))
    ELSE Rat(1, Pow2(-a[1]))

\* Sum of f[k] for k in lo..hi, in increasing order of k (Iterator::sum)
RECURSIVE SumTo(_, _, _)
SumTo(f, lo, hi) == IF hi < lo THEN Zero ELSE Add(SumTo(f, lo, hi - 1), f[hi])

\* ------------------------------------------------------------------ matrices
Mat(rows, cols, data) == [rows |-> rows, cols |-> cols, data |-> data]
\* DMatrix::shape
Shape(m) == <<m.rows, m.cols>>
\* DMatrix::zeros
Zeros(rows, cols) == Mat(rows, cols, [k \in 0..(rows * cols - 1) |-> Zero])
\* Matrix::get_unchecked((i, j)) on column-major storage
Get(m, i, j) == m.data[i + j * m.rows]
\* Length of a slice, a function on 0..len-1
SliceLen(s) == Cardinality(DOMAIN s)
\* buf[s..e]
SubSlice(buf, s, e) == [k \in 0..(e - s - 1) |-> buf[s + k]]
Min(a, b) == IF a <= b THEN a ELSE b

\* ------------------------------------------------------------------ inputs
Digit(seed, k) == (seed \div Pow2(k)) % 2
\* The rows x cols matrix whose flat buffer holds the binary digits of seed
SeedMatrix(rows, cols, seed) ==
    Mat(rows, cols, [k \in 0..(rows * cols - 1) |-> Num(Digit(seed, k))])
Matrices ==
    {SeedMatrix(d, n, s) : d \in 1..MaxDim, n \in 1..MaxCols, s \in 0..MaxSeed}
\* Query inputs and right-hand operands
Queries ==
    {SeedMatrix(d, n, s) : d \in 1..MaxDim, n \in 1..MaxCols, s \in 0..MaxQuerySeed}
\* Training inputs
TrainMatrices ==
    {SeedMatrix(d, n, s) : d \in 1..MaxDim, n \in 1..MaxTrain, s \in 0..MaxSeed}
\* Target vectors: DVector is a matrix of one column
Vectors == {SeedMatrix(n, 1, s) : n \in 1..MaxTrain, s \in {1, 2}}

\* ------------------------------------------------------------------ indexing
index_to_2d(index, nmajor) ==
    LET i == index \div nmajor
        j == index - (i * nmajor)
    IN <<i, j>>

slice_indices(index, nmajor) ==
    LET xs == index * nmajor
        xe == xs + nmajor
    IN <<xs, xe>>

\* ------------------------------------------------------------------ errors
\* IncompatibleShapeError { shapes }
IncompatibleShapeError(shapes) == [kind |-> "ShapeMismatch", shapes |-> shapes]
NonPositiveDefiniteError == [kind |-> "NonPositiveDefinite", shapes |-> <<>>]
NoError == [kind |-> "none", shapes |-> <<>>]
NoMat == Mat(0, 0, <<>>)
\* Result<T, E>: Ok(value) or Err(err)
Ok(value) == [ok |-> TRUE, err |-> NoError, value |-> value]
Err(err) == [ok |-> FALSE, err |-> err, value |-> NoMat]

\* ------------------------------------------------------------------ RBF kernel
\* RBF { gamma, amplitude }, as RBF::from_params builds it
RBF(gamma, amplitude) == [gamma |-> gamma, amplitude |-> amplitude]
GammaLen(kernel) == Cardinality(DOMAIN kernel.gamma)
\* Finite, anisotropic gamma: dimension k has gamma -(k+1)
GammaFinite(d) == [k \in 0..(d - 1) |-> Num(-(1 + (k % 2)))]
\* RBF::gamma of a zero length scale: -0.5 / (0 * 0) is -inf
GammaZeroLength(d) == [k \in 0..(d - 1) |-> NegInf]
Kernels ==
    {RBF(GammaFinite(d), One) : d \in 1..MaxDim}
        \cup {RBF(GammaZeroLength(1), One), RBF(GammaFinite(1), Zero),
              RBF(GammaFinite(1), Num(2))}

call_point(kernel, x_point, y_point) ==
    LET len == Min(GammaLen(kernel), Min(SliceLen(x_point), SliceLen(y_point)))
        term == [k \in 0..(len - 1) |->
                    LET diff == Sub(x_point[k], y_point[k])
                    IN Mul(Mul(diff, diff), kernel.gamma[k])]
        unscaled == Exp(SumTo(term, 0, len - 1))
    IN Mul(unscaled, kernel.amplitude)

\* check_shapes comparing the inputs with each other and not with the kernel
check_shapes_no_gamma(kernel, x_shape, y_shape, into_shape) ==
    IF \/ x_shape[1] # y_shape[1]
       \/ into_shape # <<x_shape[2], y_shape[2]>>
    THEN Err(IncompatibleShapeError(
             <<x_shape, y_shape, <<1, GammaLen(kernel)>>, into_shape>>))
    ELSE Ok(NoMat)

check_shapes(kernel, x_shape, y_shape, into_shape) ==
    IF \/ x_shape[1] # GammaLen(kernel)
       \/ y_shape[1] # GammaLen(kernel)
       \/ into_shape # <<x_shape[2], y_shape[2]>>
    THEN Err(IncompatibleShapeError(
             <<x_shape, y_shape, <<1, GammaLen(kernel)>>, into_shape>>))
    ELSE Ok(NoMat)

\* Kernel::call_inplace: the result and the buffer `into` as the call leaves it
call_inplace(kernel, x, y, into) ==
    LET x_shape == Shape(x)
        y_shape == Shape(y)
        into_shape == Shape(into)
        checked == check_shapes(kernel, x_shape, y_shape, into_shape)
        dims == x_shape[1]
        cell(index) ==
            LET ij == index_to_2d(index, y_shape[2])
                xb == slice_indices(ij[1], dims)
                yb == slice_indices(ij[2], dims)
            IN call_point(kernel, SubSlice(x.data, xb[1], xb[2]),
                          SubSlice(y.data, yb[1], yb[2]))
    IN IF ~checked.ok THEN [res |-> checked, into |-> into]
       ELSE [res |-> Ok(NoMat),
             into |-> Mat(into.rows, into.cols,
                          [index \in DOMAIN into.data |-> cell(index)])]

\* The bounds (xs, xe) and (ys, ye) that call_inplace passes to
\* get_unchecked on the flat buffers of x and of y
call_inplace_slices(x, y) ==
    [x |-> {slice_indices(index_to_2d(index, Shape(y)[2])[1], Shape(x)[1]) :
                index \in 0..(Shape(x)[2] * Shape(y)[2] - 1)},
     y |-> {slice_indices(index_to_2d(index, Shape(y)[2])[2], Shape(x)[1]) :
                index \in 0..(Shape(x)[2] * Shape(y)[2] - 1)}]

\* Kernel::call
call(kernel, x, y) ==
    LET value == Zeros(Shape(x)[2], Shape(y)[2])
        r == call_inplace(kernel, x, y, value)
    IN IF ~r.res.ok THEN r.res ELSE Ok(r.into)

\* The filter of call_triangular_inplace with the two sides exchanged
side_filter_mirrored(side, i, j) == IF side = "LOWER" THEN i >= j ELSE i <= j

\* The filter of call_triangular_inplace on the decoded pair (i, j):
\* LOWER => i <= j, UPPER => i >= j
side_filter(side, i, j) == IF side = "LOWER" THEN i <= j ELSE i >= j

\* RBF::call_triangular_inplace
call_triangular_inplace(kernel, x, side, into) ==
    LET x_shape == Shape(x)
        into_shape == Shape(into)
        checked == check_shapes(kernel, x_shape, x_shape, into_shape)
        dims == x_shape[1]
        kept(index) ==
            LET ij == index_to_2d(index, x_shape[2])
            IN side_filter(side, ij[1], ij[2])
        cell(index) ==
            LET ij == index_to_2d(index, x_shape[2])
                xb == slice_indices(ij[1], dims)
                yb == slice_indices(ij[2], dims)
            IN call_point(kernel, SubSlice(x.data, xb[1], xb[2]),
                          SubSlice(x.data, yb[1], yb[2]))
    IN IF ~checked.ok THEN [res |-> checked, into |-> into]
       ELSE [res |-> Ok(NoMat),
             into |-> Mat(into.rows, into.cols,
                          [index \in DOMAIN into.data |->
                              IF kept(index) THEN cell(index)
                              ELSE into.data[index]])]

\* The bounds that call_triangular_inplace passes to get_unchecked on the
\* flat buffer of x, for the items its filter keeps
call_triangular_slices(x, side) ==
    LET kept == {index \in 0..(Shape(x)[2] * Shape(x)[2] - 1) :
                    side_filter(side, index_to_2d(index, Shape(x)[2])[1],
                                index_to_2d(index, Shape(x)[2])[2])}
    IN {slice_indices(index_to_2d(index, Shape(x)[2])[1], Shape(x)[1]) :
            index \in kept}
       \cup {slice_indices(index_to_2d(index, Shape(x)[2])[2], Shape(x)[1]) :
                 index \in kept}

\* Kernel::call_triangular
call_triangular(kernel, x, side) ==
    LET value == Zeros(Shape(x)[2], Shape(x)[2])
        r == call_triangular_inplace(kernel, x, side, value)
    IN IF ~r.res.ok THEN r.res ELSE Ok(r.into)

\* Kernel::call_diagonal: the shape check of every kernel operation, then the
\* amplitude once per column of x; the value is a Vec
call_diagonal(kernel, x) ==
    IF Shape(x)[1] # GammaLen(kernel)
    THEN Err(IncompatibleShapeError(<<Shape(x), <<1, GammaLen(kernel)>>>>))
    ELSE Ok([i \in 0..(Shape(x)[2] - 1) |-> kernel.amplitude])

\* ------------------------------------------------------------------ linalg
\* Matrix::get_unchecked((i, j)): the element at linear index i + j * nrows.
\* Past the end of the buffer the read is undefined behaviour and yields ub,
\* a value the caller of the model chooses.
GetUnchecked(m, i, j, ub) ==
    LET k == i + j * m.rows
    IN IF k >= 0 /\ k < m.rows * m.cols THEN m.data[k] ELSE ub

\* matmul_wrapper collecting row by row: output row li outermost
matmul_wrapper_row_major(l_shape, r_shape, op) ==
    [idx \in 0..(r_shape[2] * l_shape[1] - 1) |->
        LET li == idx \div r_shape[2]
            rj == idx % r_shape[2]
            len == Min(r_shape[1], l_shape[2])
        IN SumTo([k \in 0..(len - 1) |-> op[<<li, k, k, rj>>]], 0, len - 1)]

\* Iteration wrapper of matrix multiplication: the Vec the parallel iterator
\* collects, output column rj outermost and output row li inside it.  The
\* closure op is the function of <<li, lj, ri, rj>>.
matmul_wrapper(l_shape, r_shape, op) ==
    [idx \in 0..(r_shape[2] * l_shape[1] - 1) |->
        LET rj == idx \div l_shape[1]
            li == idx % l_shape[1]
            len == Min(r_shape[1], l_shape[2])
        IN SumTo([k \in 0..(len - 1) |-> op[<<li, k, k, rj>>]], 0, len - 1)]

\* Iteration wrapper of the diagonal-only multiplication
matmul_wrapper_diag(l_shape, r_shape, op) ==
    [li_rj \in 0..(r_shape[2] - 1) |->
        LET len == Min(r_shape[1], l_shape[2])
        IN SumTo([k \in 0..(len - 1) |-> op[<<li_rj, k, k, li_rj>>]], 0, len - 1)]

\* The index pairs ((li, lj), (ri, rj)) that matmul_wrapper passes to op
matmul_wrapper_pairs(l_shape, r_shape) ==
    {<<li, k, k, rj>> : li \in 0..(l_shape[1] - 1), rj \in 0..(r_shape[2] - 1),
                        k \in 0..(Min(r_shape[1], l_shape[2]) - 1)}

\* The index pairs that matmul_wrapper_diag passes to op
matmul_wrapper_diag_pairs(l_shape, r_shape) ==
    {<<li_rj, k, k, li_rj>> : li_rj \in 0..(r_shape[2] - 1),
                              k \in 0..(Min(r_shape[1], l_shape[2]) - 1)}

\* The (row, column) positions the op closures pass to get_unchecked, of
\* lhs and of rhs, once the shape check of the function has passed
par_matmul_reads(lhs, rhs) ==
    [lhs |-> {<<t[1], t[2]>> : t \in matmul_wrapper_pairs(Shape(lhs), Shape(rhs))},
     rhs |-> {<<t[3], t[4]>> : t \in matmul_wrapper_pairs(Shape(lhs), Shape(rhs))}]

par_tr_matmul_reads(lhs, rhs) ==
    [lhs |-> {<<t[2], t[1]>> : t \in matmul_wrapper_pairs(
                                         <<Shape(lhs)[2], Shape(lhs)[1]>>, Shape(rhs))},
     rhs |-> {<<t[3], t[4]>> : t \in matmul_wrapper_pairs(
                                         <<Shape(lhs)[2], Shape(lhs)[1]>>, Shape(rhs))}]

par_tr_matmul_diag_reads(lhs, rhs) ==
    [lhs |-> {<<t[2], t[1]>> : t \in matmul_wrapper_diag_pairs(
                                         <<Shape(lhs)[2], Shape(lhs)[1]>>, Shape(rhs))},
     rhs |-> {<<t[3], t[4]>> : t \in matmul_wrapper_diag_pairs(
                                         <<Shape(lhs)[2], Shape(lhs)[1]>>, Shape(rhs))}]

par_matmul(lhs, rhs, ub) ==
    LET l_shape == Shape(lhs)
        r_shape == Shape(rhs)
        op == [t \in Nat \X Nat \X Nat \X Nat |->
                  LET li == t[1]
                      lj == t[2]
                      ri == t[3]
                      rj == t[4]
                  IN Mul(GetUnchecked(lhs, li, lj, ub),
                         GetUnchecked(rhs, ri, rj, ub))]
    IN IF l_shape[2] # r_shape[1]
       THEN Err(IncompatibleShapeError(<<l_shape, r_shape>>))
       ELSE Ok(matmul_wrapper(l_shape, r_shape, op))

\* par_tr_matmul reading lhs as par_matmul does, not transposed
par_tr_matmul_untransposed(lhs, rhs, ub) ==
    LET l_shape == <<Shape(lhs)[2], Shape(lhs)[1]>>
        r_shape == Shape(rhs)
        op == [t \in Nat \X Nat \X Nat \X Nat |->
                  LET li == t[1]
                      lj == t[2]
                      ri == t[3]
                      rj == t[4]
                  IN Mul(GetUnchecked(lhs, li, lj, ub),
                         GetUnchecked(rhs, ri, rj, ub))]
    IN IF l_shape[2] # r_shape[1]
       THEN Err(IncompatibleShapeError(<<l_shape, r_shape>>))
       ELSE Ok(matmul_wrapper(l_shape, r_shape, op))

par_tr_matmul(lhs, rhs, ub) ==
    LET l_shape == <<Shape(lhs)[2], Shape(lhs)[1]>>
        r_shape == Shape(rhs)
        op == [t \in Nat \X Nat \X Nat \X Nat |->
                  LET li == t[1]
                      lj == t[2]
                      ri == t[3]
                      rj == t[4]
                  IN Mul(GetUnchecked(lhs, lj, li, ub),
                         GetUnchecked(rhs, ri, rj, ub))]
    IN IF l_shape[2] # r_shape[1]
       THEN Err(IncompatibleShapeError(<<l_shape, r_shape>>))
       ELSE Ok(matmul_wrapper(l_shape, r_shape, op))

\* par_tr_matmul_diag reading lhs as par_matmul does, not transposed
par_tr_matmul_diag_untransposed(lhs, rhs, ub) ==
    LET l_shape == <<Shape(lhs)[2], Shape(lhs)[1]>>
        r_shape == Shape(rhs)
        op == [t \in Nat \X Nat \X Nat \X Nat |->
                  LET li == t[1]
                      lj == t[2]
                      ri == t[3]
                      rj == t[4]
                  IN Mul(GetUnchecked(lhs, li, lj, ub),
                         GetUnchecked(rhs, ri, rj, ub))]
    IN IF l_shape[2] # r_shape[1]
       THEN Err(IncompatibleShapeError(<<l_shape, r_shape>>))
       ELSE Ok(matmul_wrapper_diag(l_shape, r_shape, op))

par_tr_matmul_diag(lhs, rhs, ub) ==
    LET l_shape == <<Shape(lhs)[2], Shape(lhs)[1]>>
        r_shape == Shape(rhs)
        op == [t \in Nat \X Nat \X Nat \X Nat |->
                  LET li == t[1]
                      lj == t[2]
                      ri == t[3]
                      rj == t[4]
                  IN Mul(GetUnchecked(lhs, lj, li, ub),
                         GetUnchecked(rhs, ri, rj, ub))]
    IN IF l_shape[2] # r_shape[1]
       THEN Err(IncompatibleShapeError(<<l_shape, r_shape>>))
       ELSE Ok(matmul_wrapper_diag(l_shape, r_shape, op))

\* par_add_diagonal_mut_unchecked adding to the first element of every chunk
par_add_diagonal_mut_first_row(mat, f) ==
    LET size == Shape(mat)[1]
    IN IF size = 0 THEN mat
       ELSE Mat(mat.rows, mat.cols,
                [k \in DOMAIN mat.data |->
                    IF k % size = 0 THEN Add(mat.data[k], f)
                    ELSE mat.data[k]])

\* par_add_diagonal_mut_unchecked: element i of the i-th chunk of `size`
par_add_diagonal_mut_unchecked(mat, f) ==
    LET size == Shape(mat)[1]
    IN IF size = 0 THEN mat
       ELSE Mat(mat.rows, mat.cols,
                [k \in DOMAIN mat.data |->
                    IF k \div size = k % size THEN Add(mat.data[k], f)
                    ELSE mat.data[k]])

\* Forward substitution on one column b (a slice) against the lower triangle
\* of a, from row i on
RECURSIVE solve_lower_triangular_vector_from(_, _, _)
solve_lower_triangular_vector_from(a, b, i) ==
    IF i >= a.rows THEN b
    ELSE LET coeff == Div(b[i], Get(a, i, i))
             next == [k \in DOMAIN b |->
                         IF k = i THEN coeff
                         ELSE IF k > i /\ k < a.rows
                         THEN Add(b[k], Mul(Get(a, k, i), Neg(coeff)))
                         ELSE b[k]]
         IN solve_lower_triangular_vector_from(a, next, i + 1)

\* The substitution reading a[i, k] where the code reads a[k, i]
solve_lower_triangular_vector_reading_rows(a, b) ==
    solve_lower_triangular_vector_from(
        Mat(a.rows, a.cols,
            [k \in DOMAIN a.data |-> a.data[(k % a.rows) * a.rows + k \div a.rows]]),
        b, 0)

solve_lower_triangular_vector_unchecked_mut(a, b) ==
    solve_lower_triangular_vector_from(a, b, 0)

\* What a panicking call leaves in place of its value
Panicked == [panic |-> TRUE]

\* rayon's par_chunks_exact_mut asserts chunk_size != 0
par_chunks_exact_mut_panics(chunk_size) == chunk_size = 0

\* par_solve_lower_triangular_unchecked_mut: each column of b (a chunk of
\* b.nrows elements) is solved on its own; the value is b as the call leaves it
par_solve_lower_triangular_unchecked_mut(a, b) ==
    LET nrows == b.rows
        col(j) == solve_lower_triangular_vector_unchecked_mut(
                      a, SubSlice(b.data, j * nrows, j * nrows + nrows))
    IN IF par_chunks_exact_mut_panics(nrows) THEN Panicked
       ELSE Mat(b.rows, b.cols,
                [k \in DOMAIN b.data |-> col(k \div nrows)[k % nrows]])

\* Matrix::clone_owned
clone_owned(m) == Mat(m.rows, m.cols, m.data)

\* par_solve_lower_triangular_unchecked: the solve runs on a clone of b
par_solve_lower_triangular_unchecked(a, b) ==
    par_solve_lower_triangular_unchecked_mut(a, clone_owned(b))

\* ------------------------------------------------------------------ nalgebra
\* Entry (i, j) of the matrix after the columns before k have been taken out
\* of column j: col_j.axpy(-m[j, k], col_k, 1) for each k in turn
RECURSIVE reduced_entry(_, _, _, _)
reduced_entry(m, i, j, k) ==
    IF k = 0 THEN Get(m, i, j)
    ELSE Add(Mul(Neg(Get(m, j, k - 1)), Get(m, i, k - 1)),
             Mul(One, reduced_entry(m, i, j, k - 1)))

\* Cholesky::new from column j on: column j minus the contributions of the
\* columns before it, then divided by the square root of its pivot; None
\* when the pivot is zero or has no square root (negative or NaN).  Only the
\* lower triangle is read and written.
RECURSIVE cholesky_from(_, _)
cholesky_from(m, j) ==
    IF j >= m.rows THEN Ok(m)
    ELSE LET n == m.rows
             diag == reduced_entry(m, j, j, j)
             denom == Sqrt(diag)
             next == Mat(n, n,
                         [idx \in DOMAIN m.data |->
                             LET i == idx % n
                                 c == idx \div n
                             IN IF c = j /\ i = j THEN denom
                                ELSE IF c = j /\ i > j
                                THEN Div(reduced_entry(m, i, j, j), denom)
                                ELSE m.data[idx]])
         IN IF IsZero(diag) \/ ~IsPositive(diag) THEN Err(NonPositiveDefiniteError)
            ELSE cholesky_from(next, j + 1)

\* DMatrix::cholesky; the value is Cholesky::l_dirty, the factor with the
\* input's strict upper triangle still in place
cholesky(m) == cholesky_from(m, 0)

\* Back substitution with the transpose of the lower triangle of l, from row
\* i down to row 0
RECURSIVE ad_solve_lower_triangular_from(_, _, _)
ad_solve_lower_triangular_from(l, b, i) ==
    IF i < 0 THEN b
    ELSE LET dot == SumTo([k \in (i + 1)..(l.rows - 1) |->
                              Mul(Get(l, k, i), b[k])], i + 1, l.rows - 1)
             b_i == Div(Sub(b[i], dot), Get(l, i, i))
         IN ad_solve_lower_triangular_from(
                l, [k \in DOMAIN b |-> IF k = i THEN b_i ELSE b[k]], i - 1)

\* Forward substitution of nalgebra's solve_lower_triangular on the vector
\* b, from row i on: b[i] /= l[i, i], then b[i+1..].axpy(-b[i], l[i+1.., i], 1)
RECURSIVE nalgebra_solve_lower_triangular_from(_, _, _)
nalgebra_solve_lower_triangular_from(l, b, i) ==
    IF i >= l.rows THEN b
    ELSE LET coeff == Div(b[i], Get(l, i, i))
             next == [k \in DOMAIN b |->
                         IF k = i THEN coeff
                         ELSE IF k > i /\ k < l.rows
                         THEN Add(Mul(Neg(coeff), Get(l, k, i)), Mul(One, b[k]))
                         ELSE b[k]]
         IN nalgebra_solve_lower_triangular_from(l, next, i + 1)

\* A solve that stops after the forward substitution L z = b
cholesky_solve_forward_only(l, b) ==
    Mat(b.rows, b.cols, nalgebra_solve_lower_triangular_from(l, b.data, 0))

\* Cholesky::solve: L z = b, then transpose(L) x = z
cholesky_solve(l, b) ==
    LET z == nalgebra_solve_lower_triangular_from(l, b.data, 0)
    IN Mat(b.rows, b.cols, ad_solve_lower_triangular_from(l, z, l.rows - 1))

\* ------------------------------------------------------------------ GP
\* CompiledGP { cholesky, alpha, kernel, x }; the kernel stays in `kernel`
CompiledGP(l, alpha, x) == [state |-> "compiled", l |-> l, alpha |-> alpha, x |-> x]
NoGP == [state |-> "builder", l |-> NoMat, alpha |-> NoMat, x |-> NoMat]
FailedGP == [NoGP EXCEPT !.state = "failed"]

\* compile from the Cholesky attempt on: NonPositiveDefiniteError when it
\* failed, else alpha = cholesky.solve(y) and the compiled state
compile_solved(kxx, chol, x, y) ==
    IF ~chol.ok
    THEN [r |-> Err(NonPositiveDefiniteError),
          steps |-> <<"call_triangular", "par_add_diagonal", "cholesky">>,
          kxx |-> kxx, gp |-> FailedGP]
    ELSE [r |-> Ok(NoMat),
          steps |-> <<"call_triangular", "par_add_diagonal", "cholesky",
                      "solve">>,
          kxx |-> kxx, gp |-> CompiledGP(chol.value, cholesky_solve(chol.value, y), x)]

\* compile from the noisy covariance matrix on: kxx.cholesky()
compile_factored(kxx, x, y) == compile_solved(kxx, cholesky(kxx), x, y)

\* compile from the kernel's result on: its error is returned by `?`, else
\* the noise is added to the diagonal
compile_called(called, gp_noise, x, y) ==
    IF ~called.ok
    THEN [r |-> Err(called.err), steps |-> <<"call_triangular">>,
          kxx |-> NoMat, gp |-> FailedGP]
    ELSE compile_factored(par_add_diagonal_mut_unchecked(called.value, gp_noise),
                          x, y)

\* compile evaluating the kernel before it compares X with y
compile_kernel_first(gp_kernel, gp_noise, x, y) ==
    LET called == call_triangular(gp_kernel, x, "LOWER")
    IN IF ~called.ok
       THEN [r |-> Err(called.err), steps |-> <<"call_triangular">>,
             kxx |-> NoMat, gp |-> FailedGP]
       ELSE IF Shape(x)[2] # y.rows
       THEN [r |-> Err(IncompatibleShapeError(<<Shape(x), Shape(y)>>)),
             steps |-> <<"call_triangular">>, kxx |-> NoMat, gp |-> FailedGP]
       ELSE compile_called(called, gp_noise, x, y)

\* GP::compile: the result, the steps it ran, the covariance matrix it built
\* and the compiled state
compile(gp_kernel, gp_noise, x, y) ==
    IF Shape(x)[2] # y.rows
    THEN [r |-> Err(IncompatibleShapeError(<<Shape(x), Shape(y)>>)),
          steps |-> <<>>, kxx |-> NoMat, gp |-> FailedGP]
    ELSE compile_called(call_triangular(gp_kernel, x, "LOWER"), gp_noise, x, y)

\* CompiledGP::mean_precomputed; the value is a DVector
mean_precomputed(g, k_x_xp, ub) == par_tr_matmul(k_x_xp, g.alpha, ub)

\* mean after `self.kernel.call(&self.x, x)?`
mean_called(g, called, ub) ==
    IF ~called.ok THEN called ELSE mean_precomputed(g, called.value, ub)

\* CompiledGP::mean
mean(g, gp_kernel, x, ub) == mean_called(g, call(gp_kernel, g.x, x), ub)

\* The zip of var_precomputed: k_xp_xp[i] -= zipped[i] over the shorter of
\* the two, after the `?` on each
var_zipped(k_xp_xp, zipped) ==
    IF ~k_xp_xp.ok THEN k_xp_xp
    ELSE IF ~zipped.ok THEN zipped
    ELSE Ok([i \in DOMAIN k_xp_xp.value |->
                IF i \in DOMAIN zipped.value
                THEN Sub(k_xp_xp.value[i], zipped.value[i])
                ELSE k_xp_xp.value[i]])

\* var_precomputed from `fact` on: par_tr_matmul_diag(&fact, &fact); the `?`
\* on call_diagonal comes before the solve, whose panic ends the call
var_solved(k_xp_xp, fact, ub) ==
    IF ~k_xp_xp.ok THEN k_xp_xp
    ELSE IF fact = Panicked THEN Panicked
    ELSE var_zipped(k_xp_xp, par_tr_matmul_diag(fact, fact, ub))

\* CompiledGP::var_precomputed
var_precomputed(g, gp_kernel, x, k_x_xp, ub) ==
    var_solved(call_diagonal(gp_kernel, x),
               par_solve_lower_triangular_unchecked(g.l, k_x_xp), ub)

\* var after `self.kernel.call(&self.x, x)?`
var_called(g, gp_kernel, x, called, ub) ==
    IF ~called.ok THEN called
    ELSE var_precomputed(g, gp_kernel, x, called.value, ub)

\* CompiledGP::var
var(g, gp_kernel, x, ub) ==
    var_called(g, gp_kernel, x, call(gp_kernel, g.x, x), ub)

\* The zip of cov_precomputed: k_xp_xp[i] -= zipped[i] over the shorter of
\* the two slices, after the `?` on each
cov_zipped(k_xp_xp, zipped) ==
    IF ~k_xp_xp.ok THEN k_xp_xp
    ELSE IF ~zipped.ok THEN zipped
    ELSE Ok(Mat(k_xp_xp.value.rows, k_xp_xp.value.cols,
                [i \in DOMAIN k_xp_xp.value.data |->
                    IF i \in DOMAIN zipped.value
                    THEN Sub(k_xp_xp.value.data[i], zipped.value[i])
                    ELSE k_xp_xp.value.data[i]]))

\* cov_precomputed from `fact` on: par_tr_matmul(&fact, &fact); the `?` on
\* the kernel call comes before the solve, whose panic ends the call
cov_solved(k_xp_xp, fact, ub) ==
    IF ~k_xp_xp.ok THEN k_xp_xp
    ELSE IF fact = Panicked THEN Panicked
    ELSE cov_zipped(k_xp_xp, par_tr_matmul(fact, fact, ub))

\* CompiledGP::cov_precomputed
cov_precomputed(g, gp_kernel, x, k_x_xp, ub) ==
    cov_solved(call(gp_kernel, x, x),
               par_solve_lower_triangular_unchecked(g.l, k_x_xp), ub)

\* cov after `self.kernel.call(&self.x, x)?`
cov_called(g, gp_kernel, x, called, ub) ==
    IF ~called.ok THEN called
    ELSE cov_precomputed(g, gp_kernel, x, called.value, ub)

\* CompiledGP::cov
cov(g, gp_kernel, x, ub) ==
    cov_called(g, gp_kernel, x, call(gp_kernel, g.x, x), ub)

\* The end of CompiledGP::call: `?` on the mean, `?` on the variance, then
\* the pair
gp_call_paired(m, v) ==
    IF ~m.ok THEN m
    ELSE IF v = Panicked THEN Panicked
    ELSE IF ~v.ok THEN v
    ELSE Ok(<<m.value, v.value>>)

\* call after `self.kernel.call(&self.x, x)?`
gp_call_called(g, gp_kernel, x, called, ub) ==
    IF ~called.ok THEN called
    ELSE gp_call_paired(mean_precomputed(g, called.value, ub),
                        var_precomputed(g, gp_kernel, x, called.value, ub))

\* CompiledGP::call: the value is the pair (mean, var)
gp_call(g, gp_kernel, x, ub) ==
    gp_call_called(g, gp_kernel, x, call(gp_kernel, g.x, x), ub)

\* ------------------------------------------------------------------ state
VARIABLES
    kernel,   \* GP.kernel, later CompiledGP.kernel
    noise,    \* GP.noise
    gp,       \* the builder's fate: not yet compiled, compiled, or failed
    res,      \* the last operation: its arguments and what it returned
              \* (for an inference call, y is still the targets compiled on)
    threads,  \* the invocations in progress on the compiled GP, one a thread
    fill      \* the parallel fill in progress: the buffer and the items left
vars == <<arith, kernel, noise, gp, res, threads, fill>>

Ariths == {"exact", "rounded"}
Noises == {Zero, One}
\* One input matrix of every shape
ShapeMatrices == {SeedMatrix(d, n, 1) : d \in 1..MaxDim, n \in 1..MaxCols}
\* Output buffers handed to call_inplace: any shape, filled with 7
Filled(rows, cols) == Mat(rows, cols, [k \in 0..(rows * cols - 1) |-> Num(7)])
Buffers == {Filled(r, c) : r \in 1..MaxCols, c \in 1..MaxCols}

NoRes == [op |-> "none", x |-> NoMat, y |-> NoMat, into0 |-> NoMat,
          into |-> NoMat, r |-> Ok(NoMat), steps |-> <<>>, side |-> "none",
          f |-> Zero]

\* The threads that share one CompiledGP
Threads == {"t1", "t2"}
\* A thread that has not invoked anything: its position, the operation, the
\* query it passed and what the operation returned
Idle == [pc |-> "idle", op |-> "none", x |-> NoMat, r |-> Ok(NoMat)]
\* th: every thread's invocation; k_x_xp: the `let k_x_xp` of every invocation
NoThreads == [th |-> [t \in Threads |-> Idle],
              k_x_xp |-> [t \in Threads |-> Ok(NoMat)]]

\* No parallel fill in progress
NoFill == [op |-> "none", x |-> NoMat, y |-> NoMat, side |-> "none",
           into |-> NoMat, items |-> {}, writes |-> <<>>]

\* GP::new(kernel, noise)
Init ==
    /\ arith \in Ariths
    /\ kernel \in Kernels
    /\ noise \in Noises
    /\ gp = NoGP
    /\ res = NoRes
    /\ threads = NoThreads
    /\ fill = NoFill

\* kernel.call(&x, &y)
KernelCall(x, y) ==
    /\ res.op = "none"
    /\ res' = [NoRes EXCEPT !.op = "kernel_call", !.x = x, !.y = y,
                            !.r = call(kernel, x, y)]
    /\ UNCHANGED <<arith, kernel, noise, gp, threads, fill>>

\* kernel.call_inplace(&x, &y, &mut into)
KernelCallInplace(x, y, into) ==
    /\ res.op = "none"
    /\ LET c == call_inplace(kernel, x, y, into)
       IN res' = [NoRes EXCEPT !.op = "kernel_call_inplace", !.x = x, !.y = y,
                               !.into0 = into, !.into = c.into, !.r = c.res]
    /\ UNCHANGED <<arith, kernel, noise, gp, threads, fill>>

\* TriangleSide
Sides == {"LOWER", "UPPER"}

\* kernel.call_triangular(&x, side)
KernelCallTriangular(x, side) ==
    /\ res.op = "none"
    /\ res' = [NoRes EXCEPT !.op = "kernel_call_triangular", !.x = x,
                            !.side = side,
                            !.r = call_triangular(kernel, x, side)]
    /\ UNCHANGED <<arith, kernel, noise, gp, threads, fill>>

NextKernel ==
    \/ \E x \in Matrices, y \in Queries : KernelCall(x, y)
    \/ \E x \in Matrices, side \in Sides : KernelCallTriangular(x, side)
    \/ \E x \in ShapeMatrices, y \in ShapeMatrices, into \in Buffers :
           KernelCallInplace(x, y, into)

\* RBF::from_params, no GP around the kernel
InitKernel ==
    /\ arith \in Ariths
    /\ kernel \in Kernels
    /\ noise = Zero
    /\ gp = NoGP
    /\ res = NoRes
    /\ threads = NoThreads
    /\ fill = NoFill

\* Inputs of the fills followed item by item
FillMatrices == {SeedMatrix(d, n, s) : d \in 1..MaxDim, n \in 1..MaxTrain, s \in {1, 2}}

\* Every item handed to a worker the cell before its own
item_cell_previous(index) == IF index = 0 THEN 0 ELSE index - 1

\* into.as_mut_slice().into_par_iter().enumerate(): item `index` carries the
\* mutable reference v to cell `index` of the buffer
item_cell(index) == index

\* The value the for_each closure of call_inplace stores through v
call_inplace_item(gp_kernel, x, y, index) ==
    call_point(gp_kernel,
               SubSlice(x.data,
                        slice_indices(index_to_2d(index, Shape(y)[2])[1], Shape(x)[1])[1],
                        slice_indices(index_to_2d(index, Shape(y)[2])[1], Shape(x)[1])[2]),
               SubSlice(y.data,
                        slice_indices(index_to_2d(index, Shape(y)[2])[2], Shape(x)[1])[1],
                        slice_indices(index_to_2d(index, Shape(y)[2])[2], Shape(x)[1])[2]))

\* The buffer and the write counts after one store through item index's v
Stored(f, index, value) ==
    [f EXCEPT !.into.data[item_cell(index)] = value,
              !.writes[item_cell(index)] = @ + 1,
              !.items = @ \ {index}]

\* kernel.call(&x, &y) reaches the parallel iterator: the shapes were
\* accepted and the buffer is the zeroed n_x x n_y matrix
FillStart(x, y) ==
    /\ fill.op = "none"
    /\ check_shapes(kernel, Shape(x), Shape(y), <<Shape(x)[2], Shape(y)[2]>>).ok
    /\ fill' = [op |-> "call_inplace", x |-> x, y |-> y, side |-> "none",
                into |-> Zeros(Shape(x)[2], Shape(y)[2]),
                items |-> 0..(Shape(x)[2] * Shape(y)[2] - 1),
                writes |-> [k \in 0..(Shape(x)[2] * Shape(y)[2] - 1) |-> 0]]
    /\ UNCHANGED <<arith, kernel, noise, gp, res, threads>>

\* kernel.call_triangular(&x, side) reaches the parallel iterator
FillStartTriangular(x, side) ==
    /\ fill.op = "none"
    /\ check_shapes(kernel, Shape(x), Shape(x), <<Shape(x)[2], Shape(x)[2]>>).ok
    /\ fill' = [op |-> "call_triangular", x |-> x, y |-> x, side |-> side,
                into |-> Zeros(Shape(x)[2], Shape(x)[2]),
                items |-> 0..(Shape(x)[2] * Shape(x)[2] - 1),
                writes |-> [k \in 0..(Shape(x)[2] * Shape(x)[2] - 1) |-> 0]]
    /\ UNCHANGED <<arith, kernel, noise, gp, res, threads>>

\* Some worker runs the closures on one of the items left: call_inplace
\* stores the item's value; call_triangular stores it when the filter keeps
\* the item and drops the item otherwise
FillItem(index) ==
    /\ fill.op # "none"
    /\ index \in fill.items
    /\ fill' = IF fill.op = "call_triangular"
                  /\ ~side_filter(fill.side,
                                  index_to_2d(index, Shape(fill.x)[2])[1],
                                  index_to_2d(index, Shape(fill.x)[2])[2])
               THEN [fill EXCEPT !.items = @ \ {index}]
               ELSE Stored(fill, index,
                           call_inplace_item(kernel, fill.x, fill.y, index))
    /\ UNCHANGED <<arith, kernel, noise, gp, res, threads>>

NextFill ==
    \/ \E x \in FillMatrices, y \in FillMatrices : FillStart(x, y)
    \/ \E x \in FillMatrices, side \in Sides : FillStartTriangular(x, side)
    \/ \E index \in 0..(MaxCols * MaxCols) : FillItem(index)

\* One parallel fill of the kernel, its items taken in every order
SpecFill == InitKernel /\ [][NextFill]_vars

\* One operation of the kernel, on a kernel of any parameters
SpecKernel == InitKernel /\ [][NextKernel]_vars

\* Values an out-of-bounds unchecked read may yield
UBValues == {Zero, Num(5)}

\* par_matmul(&lhs, &rhs)
ParMatmul(lhs, rhs, ub) ==
    /\ res.op = "none"
    /\ res' = [NoRes EXCEPT !.op = "par_matmul", !.x = lhs, !.y = rhs,
                            !.r = par_matmul(lhs, rhs, ub)]
    /\ UNCHANGED <<arith, kernel, noise, gp, threads, fill>>

\* par_tr_matmul(&lhs, &rhs)
ParTrMatmul(lhs, rhs, ub) ==
    /\ res.op = "none"
    /\ res' = [NoRes EXCEPT !.op = "par_tr_matmul", !.x = lhs, !.y = rhs,
                            !.r = par_tr_matmul(lhs, rhs, ub)]
    /\ UNCHANGED <<arith, kernel, noise, gp, threads, fill>>

\* par_tr_matmul_diag(&lhs, &rhs)
ParTrMatmulDiag(lhs, rhs, ub) ==
    /\ res.op = "none"
    /\ res' = [NoRes EXCEPT !.op = "par_tr_matmul_diag", !.x = lhs, !.y = rhs,
                            !.r = par_tr_matmul_diag(lhs, rhs, ub)]
    /\ UNCHANGED <<arith, kernel, noise, gp, threads, fill>>

NextLinalg ==
    \/ \E lhs \in Matrices, rhs \in Queries, ub \in UBValues :
           ParMatmul(lhs, rhs, ub)
    \/ \E lhs \in Matrices, rhs \in Queries, ub \in UBValues :
           ParTrMatmul(lhs, rhs, ub)
    \/ \E lhs \in Matrices, rhs \in Queries, ub \in UBValues :
           ParTrMatmulDiag(lhs, rhs, ub)

\* Square coefficient matrices of n rows, n from 0 on: the diagonal is 1 or
\* 2, below it 0 or 1, above it 0 or 3 (a factor with a dirty upper triangle)
Coefficients(n, seed) ==
    Mat(n, n, [k \in 0..(n * n - 1) |->
                  IF k % n = k \div n THEN Num(1 + Digit(seed, k))
                  ELSE IF k % n > k \div n THEN Num(Digit(seed, k))
                  ELSE Num(3 * Digit(seed, k))])
CoefficientMatrices ==
    {Coefficients(n, s) : n \in 0..MaxTrain, s \in 0..(Pow2(MaxTrain * MaxTrain) - 1)}
\* Right-hand sides of n rows
RightHandSides(n) ==
    {SeedMatrix(n, m, s) : m \in 1..MaxCols, s \in 0..MaxQuerySeed}

\* What a solve that returned v leaves behind: a is read, b is borrowed
\* immutably
Solved(a, b, v) ==
    res' = [NoRes EXCEPT !.op = "par_solve", !.x = a, !.y = b, !.into0 = b,
                         !.into = b,
                         !.r = IF v = Panicked
                               THEN Err([kind |-> "panic", shapes |-> <<>>])
                               ELSE Ok(v)]

\* par_solve_lower_triangular_unchecked(&a, &b), on a and b of as many rows
ParSolve(a, b) ==
    /\ res.op = "none"
    /\ Solved(a, b, par_solve_lower_triangular_unchecked(a, b))
    /\ UNCHANGED <<arith, kernel, noise, gp, threads, fill>>

NextSolve == \E a \in CoefficientMatrices : \E b \in RightHandSides(a.rows) : ParSolve(a, b)

\* No kernel and no GP take part in the linear-algebra functions
InitLinalg ==
    /\ arith \in Ariths
    /\ kernel = RBF(GammaFinite(1), One)
    /\ noise = Zero
    /\ gp = NoGP
    /\ res = NoRes
    /\ threads = NoThreads
    /\ fill = NoFill

\* One call of a linear-algebra function
SpecLinalg == InitLinalg /\ [][NextLinalg]_vars
\* One call of the triangular solve
SpecSolve == InitLinalg /\ [][NextSolve]_vars

\* Square matrices, the empty one among them, and the scalars added
SquareMatrices == {SeedMatrix(n, n, s) : n \in 0..MaxCols, s \in 0..MaxSeed}
Addends == {Zero, One, Num(2), Num(-1)}

\* par_add_diagonal_mut_unchecked(&mut mat, &f) on a square matrix
ParAddDiagonal(mat, f) ==
    /\ res.op = "none"
    /\ res' = [NoRes EXCEPT !.op = "par_add_diagonal", !.into0 = mat, !.f = f,
                            !.into = par_add_diagonal_mut_unchecked(mat, f)]
    /\ UNCHANGED <<arith, kernel, noise, gp, threads, fill>>

NextAddDiagonal == \E mat \in SquareMatrices, f \in Addends : ParAddDiagonal(mat, f)

\* One call of par_add_diagonal_mut_unchecked
SpecAddDiagonal == InitLinalg /\ [][NextAddDiagonal]_vars

\* What a compile that returned c leaves behind
Compiled(x, y, c) ==
    /\ gp' = c.gp
    /\ res' = [NoRes EXCEPT !.op = "compile", !.x = x, !.y = y,
                            !.r = c.r, !.into = c.kxx, !.steps = c.steps]

\* gp.compile(x, &y): consumes the builder
Compile(x, y) ==
    /\ gp.state = "builder"
    /\ res.op = "none"
    /\ Compiled(x, y, compile(kernel, noise, x, y))
    /\ UNCHANGED <<arith, kernel, noise, threads, fill>>

\* The model follows one inference call on each compiled GP: a call leaves
\* the compiled state as it is, so a second call starts where the first did.
Fresh == gp.state = "compiled" /\ res.op = "compile"

\* compiled.mean(&x)
Mean(x, ub) ==
    /\ Fresh
    /\ res' = [NoRes EXCEPT !.op = "mean", !.x = x, !.y = res.y, !.r = mean(gp, kernel, x, ub)]
    /\ UNCHANGED <<arith, kernel, noise, gp, threads, fill>>

\* compiled.var(&x)
Var(x, ub) ==
    /\ Fresh
    /\ res' = [NoRes EXCEPT !.op = "var", !.x = x, !.y = res.y, !.r = var(gp, kernel, x, ub)]
    /\ UNCHANGED <<arith, kernel, noise, gp, threads, fill>>

\* compiled.cov(&x)
Cov(x, ub) ==
    /\ Fresh
    /\ res' = [NoRes EXCEPT !.op = "cov", !.x = x, !.y = res.y, !.r = cov(gp, kernel, x, ub)]
    /\ UNCHANGED <<arith, kernel, noise, gp, threads, fill>>

\* compiled.call(&x)
Call(x, ub) ==
    /\ Fresh
    /\ res' = [NoRes EXCEPT !.op = "call", !.x = x, !.y = res.y,
                            !.r = gp_call(gp, kernel, x, ub)]
    /\ UNCHANGED <<arith, kernel, noise, gp, threads, fill>>

NextCompile == \E x \in TrainMatrices, y \in Vectors : Compile(x, y)

NextMean ==
    \/ NextCompile
    \/ \E x \in Queries, ub \in UBValues : Mean(x, ub)

NextVar ==
    \/ NextCompile
    \/ \E x \in Queries, ub \in UBValues : Var(x, ub)
    \/ \E x \in Queries, ub \in UBValues : Cov(x, ub)

\* Training inputs of every shape, the one of no training point included,
\* with distinct points; queries of every shape
InferenceTrainMatrices ==
    {SeedMatrix(d, n, 2) : d \in 1..MaxDim, n \in 0..MaxTrain}
InferenceQueries ==
    {SeedMatrix(d, n, 1) : d \in 1..MaxDim, n \in 0..MaxCols}

NextInference ==
    \/ \E x \in InferenceTrainMatrices, n \in 0..MaxTrain :
           Compile(x, SeedMatrix(n, 1, 1))
    \/ \E x \in InferenceQueries, ub \in UBValues : Mean(x, ub)
    \/ \E x \in InferenceQueries, ub \in UBValues : Var(x, ub)
    \/ \E x \in InferenceQueries, ub \in UBValues : Cov(x, ub)
    \/ \E x \in InferenceQueries, ub \in UBValues : Call(x, ub)

\* One K* buffer that every invocation writes and reads
shared_k_x_xp(t) == "t1"

\* `let k_x_xp = self.kernel.call(&self.x, x)?`: a local of the invocation,
\* so each thread's invocation has its own
local_k_x_xp(t) == t

\* The inference operations of CompiledGP
InferenceOps == {"mean", "var", "cov", "call"}
\* The queries the threads pass: one point or two, of one dimension or two
ThreadQueries == {SeedMatrix(d, n, 1) : d \in {1, 2}, n \in {1, 2}}
\* The training inputs of the shared GP: two distinct points
ThreadTrainMatrices == {SeedMatrix(d, 2, 2) : d \in 1..MaxDim}

\* Thread t calls compiled.op(&x) on the shared instance
Invoke(t, op, x) ==
    /\ gp.state = "compiled"
    /\ threads.th[t].pc = "idle"
    /\ threads' = [threads EXCEPT !.th[t] = [pc |-> "called", op |-> op,
                                              x |-> x, r |-> Ok(NoMat)]]
    /\ UNCHANGED <<arith, kernel, noise, gp, res, fill>>

\* The first statement of every operation: K* = kernel.call(&self.x, x)
KernelStep(t) ==
    /\ threads.th[t].pc = "called"
    /\ threads' = [threads EXCEPT
                       !.th[t].pc = "kernel_called",
                       !.k_x_xp[local_k_x_xp(t)] =
                           call(kernel, gp.x, threads.th[t].x)]
    /\ UNCHANGED <<arith, kernel, noise, gp, res, fill>>

\* The rest of the operation op, from the `?` on K* to the value returned
returned(g, gp_kernel, op, x, called, ub) ==
    CASE op = "mean" -> mean_called(g, called, ub)
      [] op = "var" -> var_called(g, gp_kernel, x, called, ub)
      [] op = "cov" -> cov_called(g, gp_kernel, x, called, ub)
      [] OTHER -> gp_call_called(g, gp_kernel, x, called, ub)

\* Thread t's invocation runs to its end and returns
Return(t, ub) ==
    /\ threads.th[t].pc = "kernel_called"
    /\ threads' = [threads EXCEPT
                       !.th[t].pc = "done",
                       !.th[t].r = returned(gp, kernel, threads.th[t].op,
                                            threads.th[t].x,
                                            threads.k_x_xp[local_k_x_xp(t)], ub)]
    /\ UNCHANGED <<arith, kernel, noise, gp, res, fill>>

NextThreads ==
    \/ \E x \in ThreadTrainMatrices, y \in Vectors : Compile(x, y)
    \/ \E t \in Threads, op \in InferenceOps, x \in ThreadQueries : Invoke(t, op, x)
    \/ \E t \in Threads : KernelStep(t)
    \/ \E t \in Threads, ub \in UBValues : Return(t, ub)

\* Compilation, then invocations of two threads on the compiled GP, their
\* steps interleaved in every order
SpecThreads == Init /\ [][NextThreads]_vars

\* One call of a kernel operation or of a matrix product
NextUnchecked ==
    \/ NextKernel
    \/ NextLinalg

\* The functions that index without bounds checks, on a kernel of any
\* parameters
SpecUnchecked == InitKernel /\ [][NextUnchecked]_vars

Next ==
    \/ NextKernel
    \/ NextLinalg
    \/ NextSolve
    \/ NextAddDiagonal
    \/ NextThreads
    \/ NextFill
    \/ NextMean
    \/ NextVar
    \/ NextInference
    \/ \E x \in Queries, ub \in UBValues : Call(x, ub)

Spec == Init /\ [][Next]_vars
\* Compilation alone
SpecCompile == Init /\ [][NextCompile]_vars
\* Compilation, then the posterior mean
SpecMean == Init /\ [][NextMean]_vars
\* Compilation, then the posterior variance or covariance
SpecVar == Init /\ [][NextVar]_vars
\* Compilation on any number of training points, then one inference call
SpecInference == Init /\ [][NextInference]_vars

\* ------------------------------------------------------------------ claims
\* Column j of a matrix, as a point
Column(m, j) == [k \in 0..(m.rows - 1) |-> m.data[k + j * m.rows]]
\* Entry (i, j) of a matrix
Entry(m, i, j) == m.data[i + j * m.rows]
KernelShapesOk(x, y) == x.rows = GammaLen(kernel) /\ y.rows = GammaLen(kernel)

\* C1: call(X, Y) on X (d x n_x) and Y (d x n_y) returns the n_x x n_y matrix
\* whose entry (i, j) is k(column i of X, column j of Y).
C1_CallEntries ==
    (res.op = "kernel_call" /\ KernelShapesOk(res.x, res.y)) =>
        /\ res.r.ok
        /\ Shape(res.r.value) = <<res.x.cols, res.y.cols>>
        /\ \A i \in 0..(res.x.cols - 1), j \in 0..(res.y.cols - 1) :
               Entry(res.r.value, i, j)
                   = call_point(kernel, Column(res.x, i), Column(res.y, j))

\* C8: call_inplace fails with ShapeMismatch exactly when X.rows or Y.rows
\* differs from |gamma| or the buffer's shape is not (n_x, n_y); a failed call
\* leaves the buffer as it was; no kernel parameter value makes a call with
\* consistent shapes fail.
C8_InplaceShapeCheck ==
    res.op = "kernel_call_inplace" =>
        /\ ~res.r.ok <=> \/ res.x.rows # GammaLen(kernel)
                         \/ res.y.rows # GammaLen(kernel)
                         \/ Shape(res.into0) # <<res.x.cols, res.y.cols>>
        /\ ~res.r.ok => res.r.err.kind = "ShapeMismatch" /\ res.into = res.into0

\* C8 witnesses: a call refused for the buffer's shape alone, after which the
\* buffer still holds what it held; and (second conjunct of the claim) a
\* call that succeeds on a kernel of zero length scale.
C8_Witness ==
    /\ res.op = "kernel_call_inplace"
    /\ KernelShapesOk(res.x, res.y)
    /\ ~res.r.ok
    /\ res.into = res.into0

C8_WitnessDegenerate ==
    /\ res.op = "kernel_call_inplace"
    /\ kernel.gamma[0] = NegInf
    /\ res.r.ok
    /\ res.into # res.into0

OperandShapesCarried ==
    /\ Len(res.r.err.shapes) >= 2
    /\ res.r.err.shapes[1] = Shape(res.x)
    /\ res.r.err.shapes[2] = Shape(res.y)

\* C9: every ShapeMismatch returned by the kernel calls and by par_matmul,
\* par_tr_matmul and par_tr_matmul_diag carries the shape of each operand as
\* the caller passed it.
C9_ErrorCarriesOperandShapes ==
    (/\ res.op \in {"kernel_call", "kernel_call_inplace", "par_matmul",
                    "par_tr_matmul", "par_tr_matmul_diag"}
     /\ ~res.r.ok) =>
        /\ res.r.err.kind = "ShapeMismatch"
        /\ OperandShapesCarried
        /\ res.op = "kernel_call_inplace" =>
               res.r.err.shapes[4] = Shape(res.into0)

\* C10: call(X, Y) is the transpose of call(Y, X).
C10_CallTranspose ==
    (res.op = "kernel_call" /\ KernelShapesOk(res.x, res.y)) =>
        LET back == call(kernel, res.y, res.x)
        IN /\ res.r.ok /\ back.ok
           /\ \A i \in 0..(res.x.cols - 1), j \in 0..(res.y.cols - 1) :
                  Entry(res.r.value, i, j) = Entry(back.value, j, i)

\* The covariances between every training column and column i of a query
TrainCovariances(x, i) ==
    [j \in 0..(gp.x.cols - 1) |-> call_point(kernel, Column(gp.x, j), Column(x, i))]

\* C2: mean(X*) of a compiled GP with n training columns, on a query of m
\* columns, is the vector of length m whose component i is the sum over the
\* training columns j of k(X_train column j, X* column i) * alpha[j].  The
\* values are compared in exact arithmetic.
C2_MeanFormula ==
    (res.op = "mean" /\ arith = "exact" /\ res.x.rows = GammaLen(kernel)) =>
        /\ res.r.ok
        /\ DOMAIN res.r.value = 0..(res.x.cols - 1)
        /\ \A i \in 0..(res.x.cols - 1) :
               res.r.value[i]
                   = SumTo([j \in 0..(gp.x.cols - 1) |->
                               Mul(TrainCovariances(res.x, i)[j], gp.alpha.data[j])],
                           0, gp.x.cols - 1)

\* The solution beta_i of L * beta_i = k(X_train, X*_i)
Beta(x, i) == solve_lower_triangular_vector_unchecked_mut(gp.l, TrainCovariances(x, i))

\* C3: var(X*) of a compiled GP, on a query of m columns, is the vector of
\* length m whose component i is k(X*_i, X*_i) minus the squared norm of
\* beta_i, the solution of L * beta_i = k(X_train, X*_i).  The values are
\* compared in exact arithmetic.
C3_VarFormula ==
    (res.op = "var" /\ arith = "exact" /\ res.x.rows = GammaLen(kernel)) =>
        /\ res.r.ok
        /\ DOMAIN res.r.value = 0..(res.x.cols - 1)
        /\ \A i \in 0..(res.x.cols - 1) :
               res.r.value[i]
                   = Sub(call_point(kernel, Column(res.x, i), Column(res.x, i)),
                         SumTo([k \in 0..(gp.x.cols - 1) |->
                                   Mul(Beta(res.x, i)[k], Beta(res.x, i)[k])],
                               0, gp.x.cols - 1))

\* C4: the matrix cov(X*) returns is symmetric and its diagonal is var(X*),
\* element by element, in either arithmetic.
C4_CovSymmetricDiagVar ==
    (res.op = "cov" /\ res.r.ok) =>
        /\ \A i, j \in 0..(res.x.cols - 1) :
               Entry(res.r.value, i, j) = Entry(res.r.value, j, i)
        /\ \A ub \in UBValues :
               LET v == var(gp, kernel, res.x, ub)
               IN /\ v.ok
                  /\ \A i \in 0..(res.x.cols - 1) :
                         Entry(res.r.value, i, i) = v.value[i]

\* C4 witness: a covariance matrix of two query points or more whose
\* off-diagonal entries are not all zero and whose first variance is not the
\* prior one.
C4_Witness ==
    /\ res.op = "cov"
    /\ res.r.ok
    /\ res.x.cols >= 2
    /\ Entry(res.r.value, 0, 1) # Zero
    /\ Entry(res.r.value, 0, 0) # kernel.amplitude
    /\ Entry(res.r.value, 0, 0) # Entry(res.r.value, 1, 1)

DistinctColumns(x) ==
    \A i, j \in 0..(x.cols - 1) : i # j => Column(x, i) # Column(x, j)

\* C5: a GP compiled with noise 0 on training inputs X of pairwise distinct
\* columns and targets y has mean(X) = y, component by component.  The
\* values are compared in exact arithmetic, as the identity the f64
\* computation approximates.
C5_Interpolation ==
    (/\ res.op = "mean"
     /\ arith = "exact"
     /\ noise = Zero
     /\ res.x = gp.x
     /\ DistinctColumns(gp.x)) =>
        /\ res.r.ok
        /\ \A i \in 0..(gp.x.cols - 1) : res.r.value[i] = res.y.data[i]

\* C5 witness: the mean at two distinct training points, with targets that
\* differ, of a GP compiled without noise.
C5_Witness ==
    /\ res.op = "mean"
    /\ arith = "exact"
    /\ noise = Zero
    /\ res.x = gp.x
    /\ gp.x.cols = 2
    /\ DistinctColumns(gp.x)
    /\ res.r.ok
    /\ res.y.data[0] # res.y.data[1]

\* C6: compile returns NonPositiveDefinite exactly when the Cholesky
\* factorization of K + noise * I fails, and at no other step; training
\* inputs with two identical columns and noise 0 yield NonPositiveDefinite
\* and no compiled GP.
C6_NonPositiveDefinite ==
    res.op = "compile" =>
        /\ res.r.err.kind = "NonPositiveDefinite" =>
               res.steps = <<"call_triangular", "par_add_diagonal", "cholesky">>
        /\ Len(res.steps) >= 3 =>
               (res.r.err.kind = "NonPositiveDefinite" <=> ~cholesky(res.into).ok)
        /\ (/\ res.x.cols = res.y.rows
            /\ res.x.rows = GammaLen(kernel)
            /\ noise = Zero
            /\ ~DistinctColumns(res.x)) =>
               /\ res.r.err.kind = "NonPositiveDefinite"
               /\ gp.state # "compiled"

\* C7: compile compares the number of columns of X with the length of y
\* before it evaluates the kernel, updates the diagonal or factorizes: when
\* they differ it returns ShapeMismatch with the shapes of X and y and has
\* built no covariance matrix; when they agree and X.rows is not the kernel's
\* dimension it returns the kernel's ShapeMismatch.
C7_CompileValidatesLengthFirst ==
    res.op = "compile" =>
        /\ res.x.cols # res.y.rows =>
               /\ ~res.r.ok
               /\ res.r.err = IncompatibleShapeError(<<Shape(res.x), Shape(res.y)>>)
               /\ res.steps = <<>>
               /\ res.into = NoMat
               /\ gp.state = "failed"
        /\ (res.x.cols = res.y.rows /\ res.x.rows # GammaLen(kernel)) =>
               /\ ~res.r.ok
               /\ res.r.err.kind = "ShapeMismatch"
               /\ res.r.err = check_shapes(kernel, Shape(res.x), Shape(res.x),
                                           <<res.x.cols, res.x.cols>>).err
               /\ gp.state = "failed"

\* C7 witness: X disagrees with y and with the kernel; the error is the one
\* about y.
C7_Witness ==
    /\ res.op = "compile"
    /\ res.x.cols # res.y.rows
    /\ res.x.rows # GammaLen(kernel)
    /\ res.r.err.shapes = <<Shape(res.x), Shape(res.y)>>

\* C7, second case: X agrees with y and not with the kernel.
C7_WitnessKernel ==
    /\ res.op = "compile"
    /\ res.x.cols = res.y.rows
    /\ res.x.rows # GammaLen(kernel)
    /\ ~res.r.ok

\* C11: call_triangular(X, LOWER) on X (d x n) returns the n x n matrix whose
\* entries with row >= column are those of call(X, X) and whose entries above
\* the diagonal are zero; UPPER mirrors it; the diagonal is written by both.
C11_TriangularEntries ==
    (res.op = "kernel_call_triangular" /\ res.x.rows = GammaLen(kernel)) =>
        LET full == call(kernel, res.x, res.x)
            written(i, j) == IF res.side = "LOWER" THEN i >= j ELSE i <= j
        IN /\ res.r.ok /\ full.ok
           /\ Shape(res.r.value) = <<res.x.cols, res.x.cols>>
           /\ \A i, j \in 0..(res.x.cols - 1) :
                  Entry(res.r.value, i, j)
                      = IF written(i, j) THEN Entry(full.value, i, j) ELSE Zero

\* C11 witness: a lower triangle of two columns or more whose entry below the
\* diagonal is a covariance other than zero, above a zero.
C11_Witness ==
    /\ res.op = "kernel_call_triangular"
    /\ res.side = "LOWER"
    /\ res.r.ok
    /\ res.x.cols >= 2
    /\ Entry(res.r.value, 1, 0) # Zero
    /\ Entry(res.r.value, 0, 1) = Zero
    /\ Entry(res.r.value, 0, 0) # Zero

Transposed(m) ==
    Mat(m.cols, m.rows,
        [k \in 0..(m.rows * m.cols - 1) |-> Entry(m, k \div m.cols, k % m.cols)])

C14_TrMatmulDiag ==
    (res.op = "par_tr_matmul_diag" /\ res.x.rows = res.y.rows) =>
        /\ res.r.ok
        /\ DOMAIN res.r.value = 0..(Min(res.x.cols, res.y.cols) - 1)
        /\ \A c \in 0..(Min(res.x.cols, res.y.cols) - 1) :
               res.r.value[c]
                   = SumTo([k \in 0..(res.x.rows - 1) |->
                               Mul(Entry(res.x, k, c), Entry(res.y, k, c))],
                           0, res.x.rows - 1)

\* A matrix whose entries above the diagonal are all zero
IsLowerTriangular(a) ==
    \A i, j \in 0..(a.rows - 1) : i < j => Entry(a, i, j) = Zero

\* C15: for A (n x n) lower triangular with a non-zero diagonal and B (n x m),
\* par_solve_lower_triangular(A, B) returns X of shape n x m; B is as it
\* was; and, compared in exact arithmetic, every entry of X is the forward
\* substitution x_i = (b_i - sum over j < i of A[i, j] * x_j) / A[i, i] and
\* A * X = B.
C15_ForwardSubstitution ==
    (res.op = "par_solve" /\ IsLowerTriangular(res.x)) =>
        /\ res.r.ok
        /\ Shape(res.r.value) = Shape(res.y)
        /\ res.into = res.into0
        /\ arith = "exact" =>
               \A i \in 0..(res.y.rows - 1), c \in 0..(res.y.cols - 1) :
                   /\ Entry(res.r.value, i, c)
                          = Div(Sub(Entry(res.y, i, c),
                                    SumTo([j \in 0..(i - 1) |->
                                              Mul(Entry(res.x, i, j),
                                                  Entry(res.r.value, j, c))],
                                          0, i - 1)),
                                Entry(res.x, i, i))
                   /\ SumTo([j \in 0..(res.x.cols - 1) |->
                                Mul(Entry(res.x, i, j), Entry(res.r.value, j, c))],
                            0, res.x.cols - 1)
                          = Entry(res.y, i, c)

\* The part of C15 on systems of one row or more
C15_NonEmptySystems == res.x.rows >= 1 => C15_ForwardSubstitution

\* C16: par_add_diagonal_mut(M, s) on a square matrix adds s once to every
\* diagonal element and leaves every other element as it was; on the 0 x 0
\* matrix it changes nothing.
C16_AddDiagonal ==
    res.op = "par_add_diagonal" =>
        /\ Shape(res.into) = Shape(res.into0)
        /\ \A i, j \in 0..(res.into0.rows - 1) :
               Entry(res.into, i, j)
                   = IF i = j THEN Add(Entry(res.into0, i, i), res.f)
                     ELSE Entry(res.into0, i, j)
        /\ res.into0.rows = 0 => res.into = res.into0

\* C16 witness: a matrix of two rows or more with a non-zero entry off the
\* diagonal, changed by the addition of a non-zero scalar.
C16_Witness ==
    /\ res.op = "par_add_diagonal"
    /\ res.into0.rows >= 2
    /\ res.f # Zero
    /\ Entry(res.into0, 1, 0) # Zero
    /\ res.into # res.into0

\* C16 witness of the empty case
C16_WitnessEmpty ==
    /\ res.op = "par_add_diagonal"
    /\ res.into0.rows = 0
    /\ res.f # Zero

\* The value of operation op on query x when nothing else runs
alone(op, x, ub) ==
    CASE op = "mean" -> mean(gp, kernel, x, ub)
      [] op = "var" -> var(gp, kernel, x, ub)
      [] op = "cov" -> cov(gp, kernel, x, ub)
      [] OTHER -> gp_call(gp, kernel, x, ub)

ReturnsAsAlone ==
    \A t \in Threads :
        threads.th[t].pc = "done" =>
            \E ub \in UBValues :
                threads.th[t].r = alone(threads.th[t].op, threads.th[t].x, ub)

CompiledStateKept ==
    gp.state = "compiled" =>
        /\ gp' = gp
        /\ kernel' = kernel
        /\ \A t \in Threads :
               threads.th[t].pc # "idle" => threads'.th[t].x = threads.th[t].x

\* C17: mean, var, cov and call leave the compiled state (L, alpha, kernel,
\* X_train) and the query as they were, and under every interleaving of the
\* invocations of two threads on one CompiledGP each invocation returns what
\* it returns when it runs alone.
C17_ConcurrentReads == []ReturnsAsAlone /\ [][CompiledStateKept]_vars

\* C17 witness: one invocation has returned a value while another, of a
\* different operation on a different query, is between its kernel call and
\* its return.
C17_Witness ==
    /\ threads.th["t1"].pc = "kernel_called"
    /\ threads.th["t2"].pc = "done"
    /\ threads.th["t2"].r.ok
    /\ threads.k_x_xp["t1"].ok
    /\ threads.th["t1"].op # threads.th["t2"].op
    /\ threads.th["t1"].x # threads.th["t2"].x

\* Two square matrices of one size that agree on and below the diagonal
AgreeOnLowerTriangle(a1, a2) ==
    /\ Shape(a1) = Shape(a2)
    /\ \A i, j \in 0..(a1.rows - 1) : i >= j => Entry(a1, i, j) = Entry(a2, i, j)

\* C18: the result of par_solve_lower_triangular(A, B) does not depend on the
\* strict upper triangle of A: every matrix that agrees with A on and below
\* the diagonal gives, against the same B, the same result.
C18_UpperTriangleNotRead ==
    res.op = "par_solve" =>
        \A a2 \in CoefficientMatrices :
            AgreeOnLowerTriangle(res.x, a2) =>
                res.r = (IF par_solve_lower_triangular_unchecked(a2, res.y) = Panicked
                         THEN Err([kind |-> "panic", shapes |-> <<>>])
                         ELSE Ok(par_solve_lower_triangular_unchecked(a2, res.y)))

\* C18 witness: a solve against a factor whose upper triangle is dirty and
\* whose lower triangle takes part in the result.
C18_Witness ==
    /\ res.op = "par_solve"
    /\ res.r.ok
    /\ res.x.rows >= 2
    /\ Entry(res.x, 0, 1) # Zero
    /\ Entry(res.x, 1, 0) # Zero
    /\ Entry(res.r.value, 1, 0) # Entry(res.y, 1, 0)

\* What the finished fill must have left: the matrix the operation returns
FillResult ==
    IF fill.op = "call_triangular"
    THEN call_triangular(kernel, fill.x, fill.side)
    ELSE call(kernel, fill.x, fill.y)

WritesDisjoint ==
    fill.op # "none" =>
        /\ \A k \in DOMAIN fill.writes : fill.writes[k] <= 1
        /\ fill.items = {} =>
               /\ fill.op = "call_inplace" =>
                      \A k \in DOMAIN fill.writes : fill.writes[k] = 1
               /\ FillResult.ok
               /\ fill.into = FillResult.value

InputsKept ==
    fill.op # "none" => fill'.x = fill.x /\ fill'.y = fill.y /\ kernel' = kernel

\* C19: in the parallel fills of call_inplace and call_triangular, whatever
\* the order in which the workers take the items, each output cell is written
\* at most once (exactly once by call_inplace), no input is written, and the
\* finished buffer is the one matrix the operation returns.
C19_FillRaceFree == []WritesDisjoint /\ [][InputsKept]_vars

\* C19 witness: a finished triangular fill of four cells or more in which a
\* cell was written and a cell was not; and a finished call_inplace fill
C19_Witness ==
    /\ fill.op = "call_triangular"
    /\ fill.items = {}
    /\ fill.x.cols >= 2
    /\ \E k \in DOMAIN fill.writes : fill.writes[k] = 1
    /\ \E k \in DOMAIN fill.writes : fill.writes[k] = 0

C19_WitnessInplace ==
    /\ fill.op = "call_inplace"
    /\ fill.items = {}
    /\ fill.x.cols >= 2 /\ fill.y.cols >= 2
    /\ fill.into.data[1] # fill.into.data[2]

\* Positions inside the shape of a matrix; bounds inside its flat buffer
InShape(m, positions) ==
    \A p \in positions : p[1] >= 0 /\ p[1] < m.rows /\ p[2] >= 0 /\ p[2] < m.cols
InBuffer(m, slices) ==
    \A sl \in slices : sl[1] >= 0 /\ sl[1] <= sl[2] /\ sl[2] <= m.rows * m.cols

\* The reads of the matrix product that the last call was
ProductReads ==
    CASE res.op = "par_matmul" -> par_matmul_reads(res.x, res.y)
      [] res.op = "par_tr_matmul" -> par_tr_matmul_reads(res.x, res.y)
      [] OTHER -> par_tr_matmul_diag_reads(res.x, res.y)

ProductReadsInRange ==
    (res.op \in {"par_matmul", "par_tr_matmul", "par_tr_matmul_diag"} /\ res.r.ok) =>
        InShape(res.x, ProductReads.lhs) /\ InShape(res.y, ProductReads.rhs)

KernelSlicesInRange ==
    /\ (res.op \in {"kernel_call", "kernel_call_inplace"} /\ res.r.ok) =>
           /\ InBuffer(res.x, call_inplace_slices(res.x, res.y).x)
           /\ InBuffer(res.y, call_inplace_slices(res.x, res.y).y)
    /\ (res.op = "kernel_call_triangular" /\ res.r.ok) =>
           InBuffer(res.x, call_triangular_slices(res.x, res.side))

\* C20: once the shape check of the operation has passed, every unchecked
\* access is in range: every (row, column) that par_matmul, par_tr_matmul and
\* par_tr_matmul_diag read of lhs and rhs lies inside the matrix's shape, and
\* every column slice that call_inplace and call_triangular take lies inside
\* the flat buffer of X or Y.
C20_UncheckedAccessInRange == ProductReadsInRange /\ KernelSlicesInRange

\* The part of C20 on every operation but par_tr_matmul_diag
C20_AllButDiag == res.op # "par_tr_matmul_diag" => C20_UncheckedAccessInRange

\* The last operation was an inference call on a successfully compiled GP
Inferred == gp.state = "compiled" /\ res.op \in InferenceOps

\* The shape checks of par_tr_matmul and par_tr_matmul_diag inside the
\* inference call on query x, on the operands the call hands them
InternalChecksPass(x) ==
    LET called == call(kernel, gp.x, x)
        fact == par_solve_lower_triangular_unchecked(gp.l, called.value)
    IN called.ok =>
          /\ par_tr_matmul(called.value, gp.alpha, Zero).ok
          /\ fact # Panicked =>
                 /\ par_tr_matmul(fact, fact, Zero).ok
                 /\ par_tr_matmul_diag(fact, fact, Zero).ok

\* C21: on a CompiledGP of kernel dimension d, mean, var, cov and call fail
\* if and only if the query has a row count other than d; the shape checks
\* of par_tr_matmul and par_tr_matmul_diag inside them never fail, and the
\* only error they return is ShapeMismatch.
C21_FailsOnlyOnQueryRows ==
    Inferred =>
        /\ res.r # Panicked
        /\ ~res.r.ok <=> res.x.rows # GammaLen(kernel)
        /\ ~res.r.ok => res.r.err.kind = "ShapeMismatch"
        /\ InternalChecksPass(res.x)

\* C21 on the GPs compiled on one training point or more
C21_NonEmptyTraining == gp.x.cols >= 1 => C21_FailsOnlyOnQueryRows

====
